---- MODULE Spec2Model ----
(***************************************************************************)
(* Model of nyt_crossword_downloader: RangeDownloader.download_date_range   *)
(* with the Puzzle client and the FileSystem writer it drives.              *)
(*                                                                         *)
(* Dates (Python datetimes at midnight) are day ordinals counted from       *)
(* 2024-01-01 = 0.  Strings that the code splits or parses are sequences of *)
(* one-character strings; paths and file names are TLA+ strings.            *)
(* Time is counted in ticks of 0.01 s, the resolution of the summary lines. *)
(***************************************************************************)
EXTENDS Integers, Sequences, FiniteSets, TLC

\* ---------------------------------------------------------------- bounds
MaxDays == 3        \* longest range of the short-range specification, in days
MaxPages == 2       \* the paged specification covers ranges up to MaxPages full pages + 1 day
MaxInterval == 2    \* largest minimum interval (secs_btwn_queries), in ticks
MaxDur == 3         \* longest duration of one request or one file write, in ticks
MaxFaults == 2      \* abnormal environment events (slow, failed, missing) per short run

\* ------------------------------------------------------ program constants
PAGE_SIZE == 100

\* ------------------------------------------------------------- calendar
\* datetime / timedelta arithmetic of the standard library
IsLeap(y) == (y % 4 = 0 /\ y % 100 # 0) \/ y % 400 = 0

DaysInMonth(y, m) ==
    IF m = 2 THEN (IF IsLeap(y) THEN 29 ELSE 28)
    ELSE IF m \in {4, 6, 9, 11} THEN 30 ELSE 31

RECURSIVE WalkMonths(_, _, _)
WalkMonths(y, m, n) ==
    IF n < DaysInMonth(y, m)
    THEN [year |-> y, month |-> m, day |-> n + 1]
    ELSE WalkMonths(IF m = 12 THEN y + 1 ELSE y, IF m = 12 THEN 1 ELSE m + 1,
                    n - DaysInMonth(y, m))

\* the calendar date of a day ordinal (dt.year, dt.month, dt.day)
FromOrdinal(n) == WalkMonths(2024, 1, n)

RECURSIVE DaysBefore(_, _)
DaysBefore(y, m) ==
    IF y = 2024 /\ m = 1 THEN 0
    ELSE LET py == IF m = 1 THEN y - 1 ELSE y
             pm == IF m = 1 THEN 12 ELSE m - 1
         IN  DaysBefore(py, pm) + DaysInMonth(py, pm)

\* the day ordinal of a calendar date
ToOrdinal(y, m, d) == DaysBefore(y, m) + d - 1

\* -------------------------------------------------------------- strings
Digits == <<"0", "1", "2", "3", "4", "5", "6", "7", "8", "9">>

DigitValue(c) == CHOOSE v \in 0..9 : Digits[v + 1] = c

RECURSIVE Decimal(_)
\* str(n) for n >= 0
Decimal(n) == IF n < 10 THEN <<Digits[n + 1]>>
              ELSE Decimal(n \div 10) \o <<Digits[(n % 10) + 1]>>

RECURSIVE PadLeft(_, _)
PadLeft(s, w) == IF Len(s) >= w THEN s ELSE PadLeft(<<"0">> \o s, w)

\* "{:0wd}".format(n)
ZeroPad(n, w) == PadLeft(Decimal(n), w)

RECURSIVE ParseInt(_)
\* int(s) for a string of digits (leading zeros allowed)
ParseInt(s) == IF Len(s) = 0 THEN 0
               ELSE ParseInt(SubSeq(s, 1, Len(s) - 1)) * 10 + DigitValue(s[Len(s)])

RECURSIVE Split(_, _)
\* s.split(sep)
Split(s, sep) ==
    IF \A i \in 1..Len(s) : s[i] # sep THEN <<s>>
    ELSE LET k == CHOOSE i \in 1..Len(s) :
                      s[i] = sep /\ \A j \in 1..(i - 1) : s[j] # sep
         IN  <<SubSeq(s, 1, k - 1)>> \o Split(SubSeq(s, k + 1, Len(s)), sep)

RECURSIVE Str(_)
\* a character sequence as one string
Str(s) == IF Len(s) = 0 THEN "" ELSE s[1] \o Str(Tail(s))

normalize_date_str(date_str) ==
    LET p == Split(date_str, "-")
    IN  ZeroPad(ParseInt(p[1]), 4) \o <<"-">> \o ZeroPad(ParseInt(p[2]), 2)
            \o <<"-">> \o ZeroPad(ParseInt(p[3]), 2)

\* dateutil.parser.parse of a YYYY-MM-DD string: the datetime at midnight
parse_dt_str(s) ==
    LET p == Split(s, "-")
    IN  ToOrdinal(ParseInt(p[1]), ParseInt(p[2]), ParseInt(p[3]))

\* Puzzle.format_date: dt.strftime("%Y-%m-%d")
format_date(dt) ==
    LET c == FromOrdinal(dt)
    IN  ZeroPad(c.year, 4) \o <<"-">> \o ZeroPad(c.month, 2) \o <<"-">> \o ZeroPad(c.day, 2)

\* Puzzle.zero_pad_two
zero_pad_two(n) == ZeroPad(n, 2)

\* Cookies / destination: fixed for a run, never mutated
destination == "dest"

VARIABLES
    pc,                 \* position in download_date_range: "ids", "dates", "done", "raised"
    error,              \* the exception that left download_date_range, or "none"
    start_date, stop_date,
    secs_btwn_queries,  \* RangeDownloader.secs_btwn_queries
    date_folders,       \* FileSystem.date_folders
    now,                \* the wall clock, time()
    run_st, query_st, time_waiting,
    ids,                \* dict: datetime -> puzzle id
    current_date,       \* cursor of the Phase 1 while loop
    date_list, i,       \* the Phase 2 for loop: its list and how many items were taken
    dirs, files,        \* the filesystem: existing directories, path -> content
    stdout,             \* the lines printed
    wire_padded,        \* environment: whether the API zero-pads the dates it sends
    faults,             \* environment: abnormal events it may still produce
    listing_log,        \* history: listing requests sent (window, start time)
    fetch_log,          \* history: fetch requests sent (id, start time)
    iter_log,           \* history: Phase 2 iterations (date, start, end, outcome)
    sleep_log           \* history: arguments of the sleep() calls made

vars == <<pc, error, start_date, stop_date, secs_btwn_queries, date_folders, now,
          run_st, query_st, time_waiting, ids, current_date, date_list, i, dirs,
          files, stdout, wire_padded, faults, listing_log, fetch_log, iter_log,
          sleep_log>>

Min(a, b) == IF a < b THEN a ELSE b

\* ---------------------------------------------------- the remote API
\* the puzzle the server holds for a print date, and back
PuzzleIdOf(d) == 20000 + d
PrintDateOf(puzzle_id) == puzzle_id - 20000

\* a date as the API writes it: "2024-03-07", or "2024-3-7" when it does not pad
WireDate(d) ==
    LET c == FromOrdinal(d)
    IN  IF wire_padded THEN format_date(d)
        ELSE Decimal(c.year) \o <<"-">> \o Decimal(c.month) \o <<"-">> \o Decimal(c.day)

\* the document of the fetch endpoint for a puzzle id
PuzzleDoc(puzzle_id) ==
    [id |-> puzzle_id,
     publicationDate |-> WireDate(PrintDateOf(puzzle_id)),
     body |-> <<[board |-> [cells |-> puzzle_id]]>>]

\* the dates the listing may leave out of a window: any of a short window, the
\* first and the last of a long one
Omittable(a, b) == IF b - a < MaxDays THEN a..b ELSE {a, b}

RECURSIVE Omissions(_, _)
\* the sets of at most k of the dates the listing may leave out
Omissions(dates, k) ==
    IF k = 0 THEN {{}}
    ELSE LET less == Omissions(dates, k - 1)
         IN  less \cup {m \cup {d} : m \in less, d \in dates}

\* how long a request or a write may take: nominal, or MaxDur at the cost of a fault
Durations(nominal, budget) == {nominal} \cup (IF budget > 0 THEN {MaxDur} ELSE {})

Cost(dur, nominal) == IF dur > nominal THEN 1 ELSE 0

\* what requests.get(url) of the listing endpoint may give for [a, b]
ListingResponses(a, b, budget) ==
    LET Recs(m) == LET Kept(d) == d \notin m
                       days == SelectSeq([k \in 1..(b - a + 1) |-> a + k - 1], Kept)
                   IN  [k \in 1..Len(days) |->
                           [print_date |-> WireDate(days[k]),
                            puzzle_id |-> PuzzleIdOf(days[k])]]
    IN  {[kind |-> "ok", status |-> "ok", cost |-> Cardinality(m),
          json |-> [results |-> Recs(m)]] : m \in Omissions(Omittable(a, b), budget)}
        \cup (IF budget > 0
              THEN {[kind |-> "error", status |-> "error", cost |-> 1,
                     json |-> [message |-> "none"]],
                    [kind |-> "malformed", status |-> "ok", cost |-> 1,
                     json |-> [message |-> "no results"]]}
              ELSE {})

\* what requests.get(url, cookies) of the fetch endpoint may give for an id
FetchResponses(puzzle_id, budget) ==
    {[kind |-> "ok", status |-> "ok", cost |-> 0, json |-> PuzzleDoc(puzzle_id)]}
    \cup (IF budget > 0
          THEN {[kind |-> "error", status |-> "error", cost |-> 1,
                 json |-> [message |-> "none"]],
                [kind |-> "no_board", status |-> "ok", cost |-> 1,
                 json |-> [id |-> puzzle_id,
                           publicationDate |-> WireDate(PrintDateOf(puzzle_id))]],
                [kind |-> "no_date", status |-> "ok", cost |-> 1,
                 json |-> [id |-> puzzle_id,
                           body |-> <<[board |-> [cells |-> puzzle_id]]>>]]}
          ELSE {})

\* the faults left for the fetch endpoint and the writes: on a range longer than
\* MaxDays the fetches and the writes take their nominal course
FetchBudget == IF Len(date_list) <= MaxDays THEN faults ELSE 0

\* what the filesystem may do to one write_to_disk call
FsOutcomes(budget) == {"ok"} \cup (IF budget > 0 THEN {"makedirs", "open"} ELSE {})

FsCost(fs) == IF fs = "ok" THEN 0 ELSE 1

\* ------------------------------------------------------ Puzzle (client)
\* result = {}; for r in resp.json()["results"]:
\*     result[parse_dt_str(normalize_date_str(r["print_date"]))] = r["puzzle_id"]
\* (a later record of the same date replaces an earlier one)
CollectIds(rs) ==
    LET keyed == {<<parse_dt_str(normalize_date_str(rs[k].print_date)), k>>
                     : k \in 1..Len(rs)}
        last == {p \in keyed : \A q \in keyed : q[1] = p[1] => q[2] <= p[2]}
    IN  [d \in {p[1] : p \in last} |-> rs[(CHOOSE p \in last : p[1] = d)[2]].puzzle_id]

\* faulty variant: a listing call that fails is taken for an empty listing
get_puzzle_ids_by_dates_lenient(resp) ==
    IF resp.status = "error" \/ "results" \notin DOMAIN resp.json
    THEN [raised |-> "none", value |-> [d \in {} |-> 0]]
    ELSE [raised |-> "none", value |-> CollectIds(resp.json.results)]

\* Puzzle.get_puzzle_ids_by_dates, given the response of requests.get
get_puzzle_ids_by_dates(resp) ==
    IF resp.status = "error" THEN [raised |-> "ConnectionError"]
    ELSE IF "results" \notin DOMAIN resp.json THEN [raised |-> "KeyError"]
    ELSE [raised |-> "none", value |-> CollectIds(resp.json.results)]

\* Puzzle.get_puzzle_date
get_puzzle_date(data, return_date_str) ==
    IF "publicationDate" \notin DOMAIN data THEN [raised |-> "MissingPuzzleData"]
    ELSE LET date_str == normalize_date_str(data.publicationDate)
         IN  [raised |-> "none",
              value |-> IF return_date_str THEN date_str ELSE parse_dt_str(date_str)]

\* Puzzle.get_puzzle_date_str (its data always has a date where it is called)
get_puzzle_date_str(data, day_only) ==
    IF day_only THEN zero_pad_two(FromOrdinal(get_puzzle_date(data, FALSE).value).day)
    ELSE get_puzzle_date(data, TRUE).value

\* faulty variant: the board is not checked
get_puzzle_data_by_id_unchecked(puzzle_id, resp) ==
    IF resp.status = "error" THEN [raised |-> "ConnectionError"]
    ELSE LET data == resp.json
             dt == get_puzzle_date(data, FALSE)
         IN  IF dt.raised # "none" THEN dt
             ELSE [raised |-> "none", puzzle_id |-> puzzle_id,
                   puzzle_date |-> dt.value, puzzle_data |-> data]

\* Puzzle.get_puzzle_data_by_id, given the response of requests.get
get_puzzle_data_by_id(puzzle_id, resp) ==
    IF resp.status = "error" THEN [raised |-> "ConnectionError"]
    ELSE LET data == resp.json
         IN  IF "body" \notin DOMAIN data THEN [raised |-> "KeyError"]
             ELSE IF Len(data.body) = 0 THEN [raised |-> "IndexError"]
             ELSE IF "board" \notin DOMAIN data.body[1] THEN [raised |-> "KeyError"]
             ELSE LET dt == get_puzzle_date(data, FALSE)
                  IN  IF dt.raised # "none" THEN dt
                      ELSE [raised |-> "none", puzzle_id |-> puzzle_id,
                            puzzle_date |-> dt.value, puzzle_data |-> data]

\* --------------------------------------------------- FileSystem (writer)
\* os.path.join of path components
RECURSIVE join(_)
join(parts) == IF Len(parts) = 1 THEN parts[1]
               ELSE join(SubSeq(parts, 1, Len(parts) - 1)) \o "/" \o parts[Len(parts)]

\* faulty variant: the year and month folders are left out
get_destination_root_flat(dt) == <<destination>>

\* FileSystem.get_destination_root, as path components
get_destination_root(dt) ==
    IF date_folders
    THEN <<destination, Str(Decimal(FromOrdinal(dt).year)),
           Str(zero_pad_two(FromOrdinal(dt).month))>>
    ELSE <<destination>>

\* os.makedirs(root, exist_ok=True): the directory and its missing parents
makedirs(ds, root) == ds \cup {join(SubSeq(root, 1, k)) : k \in 1..Len(root)}

\* faulty variant: a failure of os.makedirs is swallowed
make_destination_folder_if_not_exists_quiet(ds, dt, fs) ==
    [raised |-> "none",
     dirs |-> IF fs = "makedirs" THEN ds ELSE makedirs(ds, get_destination_root(dt)),
     root |-> get_destination_root(dt)]

\* FileSystem.make_destination_folder_if_not_exists; fs is what the filesystem
\* does to this call
make_destination_folder_if_not_exists(ds, dt, fs) ==
    IF fs = "makedirs"
    THEN [raised |-> "Exception: Cannot create destination directory", dirs |-> ds]
    ELSE [raised |-> "none", dirs |-> makedirs(ds, get_destination_root(dt)),
          root |-> get_destination_root(dt)]

\* faulty variant: the file is opened for appending
open_a_dump(fl, path, data) ==
    (path :> ((IF path \in DOMAIN fl THEN fl[path] ELSE <<>>) \o <<data>>)) @@ fl

\* open(path, "w") followed by json.dump(data, fd, indent=2): the file holds the
\* one document, whatever it held before
open_w_dump(fl, path, data) == (path :> <<data>>) @@ fl

\* FileSystem.write_to_disk
write_to_disk(ds, fl, puzzle_id, dt, data, fs) ==
    LET made == make_destination_folder_if_not_exists(ds, dt, fs)
    IN  IF made.raised # "none"
        THEN [raised |-> made.raised, dirs |-> made.dirs, files |-> fl]
        ELSE LET filename == Str(get_puzzle_date_str(data, date_folders))
                 path == join(made.root \o <<filename \o ".json">>)
             IN  IF fs = "open"
                 THEN [raised |-> "OSError", dirs |-> made.dirs, files |-> fl]
                 ELSE [raised |-> "none", dirs |-> made.dirs,
                       files |-> open_w_dump(fl, path, data), path |-> path]

\* ----------------------------------------- RangeDownloader (orchestrator)
\* faulty variant: the range is not validated (range(n_days) is empty for n_days <= 0)
make_date_range_unchecked(start, stop) ==
    [raised |-> "none", value |-> [x \in 1..((stop - start) + 1) |-> start + (x - 1)]]

\* faulty variant: the stop date is left out
make_date_range_short(start, stop) ==
    IF stop < start THEN [raised |-> "ValueError"]
    ELSE [raised |-> "none", value |-> [x \in 1..(stop - start) |-> start + (x - 1)]]

\* RangeDownloader.make_date_range
make_date_range(start, stop) ==
    IF stop < start THEN [raised |-> "ValueError"]
    ELSE LET n_days == (stop - start) + 1
         IN  [raised |-> "none", value |-> [x \in 1..n_days |-> start + (x - 1)]]

\* faulty variant: the cursor advances one day short of a page
NextWindow_overlap(cur) == cur + (PAGE_SIZE - 1)

\* the window of one listing call and the cursor after it
WindowEnd(cur, stop) == Min(stop, cur + (PAGE_SIZE - 1))
NextWindow(cur) == cur + PAGE_SIZE

\* ids.update(result)
update(d, result) == result @@ d

\* faulty variant: the subtraction is the wrong way round
TimeRemaining_flipped(query_elapsed) == query_elapsed - secs_btwn_queries

\* time_remaining = self.secs_btwn_queries - query_elapsed
TimeRemaining(query_elapsed) == secs_btwn_queries - query_elapsed

\* "{:.02f}".format of a time in ticks of 0.01 s
Format2(t) == Str(Decimal(t \div 100) \o <<".">> \o ZeroPad(t % 100, 2))

\* faulty variant: time_waiting is assigned, not added to
Pace_overwrite(st, end) ==
    LET time_remaining == secs_btwn_queries - (end - st)
    IN  /\ time_waiting' = IF time_remaining > 0 THEN time_remaining ELSE time_waiting
        /\ sleep_log' = IF time_remaining > 0 THEN Append(sleep_log, time_remaining)
                        ELSE sleep_log
        /\ now' = IF time_remaining > 0 THEN end + time_remaining ELSE end

\* the pacing tail of both loops: measure, add to time_waiting, sleep
Pace(st, end) ==
    LET time_remaining == TimeRemaining(end - st)
    IN  /\ time_waiting' = IF time_remaining > 0 THEN time_waiting + time_remaining
                           ELSE time_waiting
        /\ sleep_log' = IF time_remaining > 0 THEN Append(sleep_log, time_remaining)
                        ELSE sleep_log
        /\ now' = IF time_remaining > 0 THEN end + time_remaining ELSE end

Config == <<start_date, stop_date, secs_btwn_queries, date_folders, run_st, wire_padded>>

\* One pass of the Phase 1 while loop: a listing call that returns, then the pacing
ListIds ==
    /\ pc = "ids"
    /\ current_date <= stop_date
    /\ \E dur \in Durations(1, faults) :
       \E resp \in ListingResponses(current_date, WindowEnd(current_date, stop_date),
                                    faults - Cost(dur, 1)) :
          LET got == get_puzzle_ids_by_dates(resp)
          IN  /\ got.raised = "none"
              /\ listing_log' = Append(listing_log,
                                   [date_start |-> current_date,
                                    date_end |-> WindowEnd(current_date, stop_date),
                                    st |-> now, response |-> resp.kind])
              /\ ids' = update(ids, got.value)
              /\ current_date' = NextWindow(current_date)
              /\ faults' = faults - Cost(dur, 1) - resp.cost
              /\ Pace(now, now + dur)
    /\ query_st' = now
    /\ UNCHANGED <<pc, error, Config, date_list, i, dirs, files, stdout, fetch_log,
                   iter_log>>

\* A listing call that raises: nothing catches it
ListIdsRaises ==
    /\ pc = "ids"
    /\ current_date <= stop_date
    /\ \E dur \in Durations(1, faults) :
       \E resp \in ListingResponses(current_date, WindowEnd(current_date, stop_date),
                                    faults - Cost(dur, 1)) :
          LET got == get_puzzle_ids_by_dates(resp)
          IN  /\ got.raised # "none"
              /\ error' = got.raised
              /\ listing_log' = Append(listing_log,
                                   [date_start |-> current_date,
                                    date_end |-> WindowEnd(current_date, stop_date),
                                    st |-> now, response |-> resp.kind])
              /\ faults' = faults - Cost(dur, 1) - resp.cost
              /\ now' = now + dur
    /\ query_st' = now
    /\ pc' = "raised"
    /\ UNCHANGED <<Config, time_waiting, ids, current_date, date_list, i, dirs, files,
                   stdout, fetch_log, iter_log, sleep_log>>

\* The while loop is over: date_list = self.make_date_range(start_date, stop_date)
MakeDateRange ==
    /\ pc = "ids"
    /\ current_date > stop_date
    /\ LET r == make_date_range(start_date, stop_date)
       IN  /\ r.raised = "none"
           /\ date_list' = r.value
    /\ pc' = "dates"
    /\ UNCHANGED <<error, Config, now, query_st, time_waiting, ids, current_date, i,
                   dirs, files, stdout, faults, listing_log, fetch_log, iter_log,
                   sleep_log>>

MakeDateRangeRaises ==
    /\ pc = "ids"
    /\ current_date > stop_date
    /\ LET r == make_date_range(start_date, stop_date)
       IN  /\ r.raised # "none"
           /\ error' = r.raised
    /\ pc' = "raised"
    /\ UNCHANGED <<Config, now, query_st, time_waiting, ids, current_date, date_list,
                   i, dirs, files, stdout, faults, listing_log, fetch_log, iter_log,
                   sleep_log>>

\* One pass of the Phase 2 for loop whose try block raises (ids[date] has no
\* such key, or get_puzzle_data_by_id raises): except Exception: pass, then pace
SkipDate ==
    /\ pc = "dates"
    /\ i < Len(date_list)
    /\ LET date == date_list[i + 1]
       IN  \/ /\ date \notin DOMAIN ids
              /\ Pace(now, now)
              /\ iter_log' = Append(iter_log,
                                [date |-> date, st |-> now, en |-> now',
                                 response |-> "none", fs |-> "none",
                                 outcome |-> "KeyError"])
              /\ UNCHANGED <<fetch_log, faults>>
           \/ /\ date \in DOMAIN ids
              /\ \E dur \in Durations(1, FetchBudget) :
                 \E resp \in FetchResponses(ids[date], FetchBudget - Cost(dur, 1)) :
                    LET got == get_puzzle_data_by_id(ids[date], resp)
                    IN  /\ got.raised # "none"
                        /\ Pace(now, now + dur)
                        /\ iter_log' = Append(iter_log,
                                          [date |-> date, st |-> now, en |-> now',
                                           response |-> resp.kind, fs |-> "none",
                                           outcome |-> got.raised])
                        /\ fetch_log' = Append(fetch_log,
                                           [puzzle_id |-> ids[date], st |-> now])
                        /\ faults' = faults - Cost(dur, 1) - resp.cost
    /\ query_st' = now
    /\ i' = i + 1
    /\ UNCHANGED <<pc, error, Config, ids, current_date, date_list, dirs, files,
                   stdout, listing_log>>

\* One pass of the Phase 2 for loop that fetches, writes, prints and paces
DownloadDate ==
    /\ pc = "dates"
    /\ i < Len(date_list)
    /\ date_list[i + 1] \in DOMAIN ids
    /\ LET date == date_list[i + 1]
       IN  \E dur \in Durations(1, FetchBudget) :
           \E resp \in FetchResponses(ids[date], FetchBudget - Cost(dur, 1)) :
           \E wdur \in Durations(0, FetchBudget - Cost(dur, 1) - resp.cost) :
           \E fs \in FsOutcomes(faults - Cost(dur, 1) - resp.cost - Cost(wdur, 0)) :
              LET got == get_puzzle_data_by_id(ids[date], resp)
                  w == write_to_disk(dirs, files, got.puzzle_id, got.puzzle_date,
                                     got.puzzle_data, fs)
              IN  /\ got.raised = "none"
                  /\ w.raised = "none"
                  /\ dirs' = w.dirs
                  /\ files' = w.files
                  /\ stdout' = Append(stdout,
                                  [line |-> "Downloaded",
                                   date |-> Str(format_date(got.puzzle_date)),
                                   id |-> got.puzzle_id, path |-> w.path])
                  /\ Pace(now, now + dur + wdur)
                  /\ iter_log' = Append(iter_log,
                                    [date |-> date, st |-> now, en |-> now',
                                     response |-> resp.kind, fs |-> fs,
                                     outcome |-> "written"])
                  /\ fetch_log' = Append(fetch_log, [puzzle_id |-> ids[date], st |-> now])
                  /\ faults' = faults - Cost(dur, 1) - resp.cost - Cost(wdur, 0)
                                      - FsCost(fs)
    /\ query_st' = now
    /\ i' = i + 1
    /\ UNCHANGED <<pc, error, Config, ids, current_date, date_list, listing_log>>

\* One pass of the Phase 2 for loop whose write_to_disk raises: the else branch
\* is outside the try, the exception leaves download_date_range
WriteRaises ==
    /\ pc = "dates"
    /\ i < Len(date_list)
    /\ date_list[i + 1] \in DOMAIN ids
    /\ LET date == date_list[i + 1]
       IN  \E dur \in Durations(1, FetchBudget) :
           \E resp \in FetchResponses(ids[date], FetchBudget - Cost(dur, 1)) :
           \E fs \in FsOutcomes(faults - Cost(dur, 1) - resp.cost) :
              LET got == get_puzzle_data_by_id(ids[date], resp)
                  w == write_to_disk(dirs, files, got.puzzle_id, got.puzzle_date,
                                     got.puzzle_data, fs)
              IN  /\ got.raised = "none"
                  /\ w.raised # "none"
                  /\ error' = w.raised
                  /\ dirs' = w.dirs
                  /\ files' = w.files
                  /\ iter_log' = Append(iter_log,
                                    [date |-> date, st |-> now, en |-> now + dur,
                                     response |-> resp.kind, fs |-> fs,
                                     outcome |-> w.raised])
                  /\ fetch_log' = Append(fetch_log, [puzzle_id |-> ids[date], st |-> now])
                  /\ faults' = faults - Cost(dur, 1) - resp.cost - FsCost(fs)
                  /\ now' = now + dur
    /\ query_st' = now
    /\ i' = i + 1
    /\ pc' = "raised"
    /\ UNCHANGED <<Config, time_waiting, ids, current_date, date_list, stdout,
                   listing_log, sleep_log>>

\* The for loop is over: the two summary lines
Finish ==
    /\ pc = "dates"
    /\ i = Len(date_list)
    /\ stdout' = stdout \o <<[line |-> "Finished", secs |-> Format2(now - run_st)],
                             [line |-> "Waiting", secs |-> Format2(time_waiting)]>>
    /\ pc' = "done"
    /\ UNCHANGED <<error, Config, now, query_st, time_waiting, ids, current_date,
                   date_list, i, dirs, files, faults, listing_log, fetch_log, iter_log,
                   sleep_log>>

Next ==
    \/ ListIds
    \/ ListIdsRaises
    \/ MakeDateRange
    \/ MakeDateRangeRaises
    \/ SkipDate
    \/ DownloadDate
    \/ WriteRaises
    \/ Finish

\* the state at the first test of the while loop, for a range and a setting
InitWith(ranges, intervals, folders, padded, budget) ==
    /\ pc = "ids"
    /\ error = "none"
    /\ \E r \in ranges : start_date = r[1] /\ stop_date = r[2]
    /\ secs_btwn_queries \in intervals
    /\ date_folders \in folders
    /\ wire_padded \in padded
    /\ faults = budget
    /\ now = 0
    /\ run_st = 0
    /\ query_st = 0
    /\ time_waiting = 0
    /\ ids = [d \in {} |-> 0]
    /\ current_date = start_date
    /\ date_list = <<>>
    /\ i = 0
    /\ dirs = {}
    /\ files = [p \in {} |-> <<>>]
    /\ stdout = <<>>
    /\ listing_log = <<>>
    /\ fetch_log = <<>>
    /\ iter_log = <<>>
    /\ sleep_log = <<>>

\* 2024-02-27: short ranges from here cross the leap day and the month's end
FirstDay == ToOrdinal(2024, 2, 27)

\* ranges of 1..MaxDays days, and ranges whose end precedes their start
ShortRanges == {<<FirstDay, FirstDay + k>> : k \in (0 - MaxDays)..(MaxDays - 1)}

\* ranges of whole pages and of whole pages plus a day, and one reversed range
PagedRanges ==
    {<<FirstDay, FirstDay + p * PAGE_SIZE + r - 1>> : p \in 1..MaxPages, r \in {0, 1}}
    \cup {<<FirstDay, FirstDay - 1>>}

\* no pacing, an interval equal to a request's nominal duration, and a longer one
Intervals == {0, 1, MaxInterval}

Init == InitWith(ShortRanges, Intervals, BOOLEAN, BOOLEAN, MaxFaults)

InitPaged == InitWith(PagedRanges, {MaxInterval}, {TRUE}, {FALSE}, 1)

Spec == Init /\ [][Next]_vars

SpecPaged == InitPaged /\ [][Next]_vars

\* short and paged ranges together
SpecAll == (Init \/ InitPaged) /\ [][Next]_vars

\* ------------------------------------------------------------ properties
Range == start_date..stop_date
NDays == (stop_date - start_date) + 1
Last(s) == s[Len(s)]
RECURSIVE Sum(_)
Sum(s) == IF Len(s) = 0 THEN 0 ELSE s[1] + Sum(Tail(s))

FsErrors == {"Exception: Cannot create destination directory", "OSError"}
Iterations == 1..Len(iter_log)
\* the iterations that sent a fetch request, and those whose fetch succeeded
Requested == {k \in Iterations : iter_log[k].response # "none"}
Fetched == {k \in Iterations : iter_log[k].response = "ok"}
Summary == <<[line |-> "Finished", secs |-> Format2(now - run_st)],
             [line |-> "Waiting", secs |-> Format2(Sum(sleep_log))]>>
\* the path the layout prescribes for a day: <dest>/<year>/<month>/<day>.json in
\* date-partitioned mode, <dest>/<YYYY-MM-DD>.json otherwise
ExpectedPath(d) ==
    LET c == FromOrdinal(d)
        yyyy == Str(ZeroPad(c.year, 4))
        mm == Str(ZeroPad(c.month, 2))
        dd == Str(ZeroPad(c.day, 2))
    IN  IF date_folders THEN "dest/" \o yyyy \o "/" \o mm \o "/" \o dd \o ".json"
        ELSE "dest/" \o yyyy \o "-" \o mm \o "-" \o dd \o ".json"

\* C1: pacing. Any two consecutive listing requests, and any two consecutive
\* fetch requests, start at least secs_btwn_queries apart, whatever the requests
\* and the writes between them took.
C1_Pacing ==
    /\ \A k \in 1..(Len(listing_log) - 1) :
          listing_log[k + 1].st - listing_log[k].st >= secs_btwn_queries
    /\ \A k \in 1..(Len(fetch_log) - 1) :
          fetch_log[k + 1].st - fetch_log[k].st >= secs_btwn_queries

\* a finished paged run whose second listing call waited for a sleep and whose
\* fetches were paced
C1_Witness ==
    /\ pc = "done"
    /\ secs_btwn_queries > 1
    /\ Len(listing_log) >= 2
    /\ listing_log[2].st - listing_log[1].st = secs_btwn_queries
    /\ Len(fetch_log) >= 2
    /\ Len(sleep_log) >= 3

C2_SkipState ==
    /\ pc = "raised" /\ iter_log # <<>> => Last(iter_log).fs \in {"makedirs", "open"}
    /\ pc = "done" =>
          /\ Len(iter_log) = NDays
          /\ Len(stdout) >= 2
          /\ SubSeq(stdout, Len(stdout) - 1, Len(stdout)) = Summary
          /\ Cardinality(DOMAIN files) = Cardinality(Fetched)
          /\ \A k \in Iterations :
                iter_log[k].response # "ok" => ExpectedPath(iter_log[k].date) \notin DOMAIN files
          /\ (\A k \in Requested : iter_log[k].response = "ok")
                => Cardinality(DOMAIN files) = Cardinality(DOMAIN ids \cap Range)

C2_SkipStep ==
    (/\ pc = "dates"
     /\ Len(iter_log') = Len(iter_log) + 1
     /\ Last(iter_log').response # "ok")
    => /\ files' = files
       /\ dirs' = dirs
       /\ stdout' = stdout
       /\ error' = "none"
       /\ pc' = "dates"
       /\ i' = i + 1

\* C2: a Phase 2 date without an id, or whose fetch fails (network error, no
\* board, no publication date), writes nothing, raises nothing and moves the loop
\* to the next date; a run raises in Phase 2 only on a filesystem failure; a
\* finished run has printed the summary and holds one file per successful fetch,
\* so k files when k of the days have an id and those k fetches succeed.
C2_Skip == []C2_SkipState /\ [][C2_SkipStep]_vars

\* a finished 3-day run with a day without id, a failed fetch and one file
C2_Witness ==
    /\ pc = "done"
    /\ \E k \in Iterations : iter_log[k].response = "none"
    /\ \E k \in Iterations : iter_log[k].response \in {"error", "no_board", "no_date"}
    /\ Cardinality(DOMAIN files) = 1

C3_InvalidState ==
    stop_date < start_date =>
        /\ pc \in {"ids", "raised"}
        /\ pc = "raised" => error = "ValueError"
        /\ listing_log = <<>>
        /\ fetch_log = <<>>
        /\ iter_log = <<>>
        /\ dirs = {}
        /\ DOMAIN files = {}
        /\ stdout = <<>>

\* C3: with the end before the start, download_date_range raises the invalid
\* range error, having sent no listing and no fetch request, created no
\* directory and written no file.
C3_InvalidRange ==
    /\ []C3_InvalidState
    /\ [][stop_date < start_date => pc' = "raised" /\ error' = "ValueError"]_vars

C3_Witness == stop_date < start_date /\ pc = "raised" /\ error = "ValueError"

\* C4: when every day of the range got an id and every fetch succeeded, the
\* finished run leaves exactly one file per day, at the day's path, holding the
\* document fetched for that day's id and nothing else.
C4_AllDays ==
    (pc = "done" /\ Cardinality(Fetched) = NDays) =>
        /\ Cardinality(DOMAIN files) = NDays
        /\ \A d \in Range :
              /\ ExpectedPath(d) \in DOMAIN files
              /\ files[ExpectedPath(d)] = <<PuzzleDoc(ids[d])>>

\* a finished run over at least 3 days, all fetched
C4_Witness == pc = "done" /\ NDays >= 3 /\ Cardinality(Fetched) = NDays

C5_AbortState ==
    (\E k \in 1..Len(listing_log) : listing_log[k].response # "ok") =>
        /\ pc = "raised"
        /\ error \in {"ConnectionError", "KeyError"}
        /\ Last(listing_log).response # "ok"
        /\ date_list = <<>>
        /\ fetch_log = <<>>
        /\ iter_log = <<>>
        /\ DOMAIN files = {}
        /\ dirs = {}
        /\ stdout = <<>>

\* C5: a listing call that fails (transport error or malformed response) raises
\* out of download_date_range at once and nothing follows: no fetch request, no
\* file, no use of the ids of earlier windows, no summary.
C5_ListingAborts == []C5_AbortState /\ [][pc # "raised"]_vars

\* the second window's call failed after the first had resolved ids
C5_Witness ==
    /\ pc = "raised"
    /\ Len(listing_log) >= 2
    /\ Last(listing_log).response = "error"
    /\ DOMAIN ids # {}

\* C6: persisting again a document that was persisted (same date, same payload)
\* succeeds, targets the same path and leaves the directories and every file as
\* they were: one file, one copy of the document.
C6_Idempotent ==
    \A p \in DOMAIN files :
        LET data == files[p][1]
            again == write_to_disk(dirs, files, data.id,
                                   get_puzzle_date(data, FALSE).value, data, "ok")
        IN  /\ Len(files[p]) = 1
            /\ again.raised = "none"
            /\ again.path = p
            /\ again.files = files
            /\ again.dirs = dirs

C6_Witness == Cardinality(DOMAIN files) >= 2

C7_OrderState ==
    /\ Len(iter_log) = i
    /\ \A k \in Iterations : iter_log[k].date = start_date + (k - 1)
    /\ iter_log # <<>> =>
          /\ current_date > stop_date
          /\ \A j \in 1..Len(listing_log) : listing_log[j].st < iter_log[1].st
    /\ pc = "done" => Len(iter_log) = NDays

\* C7: Phase 2 takes the days of [start, end] one by one in ascending order,
\* each once, a finished run has taken exactly (end - start) + 1 of them, and no
\* listing call is made once the first day is taken.
C7_Order == []C7_OrderState /\ [][iter_log # <<>> => listing_log' = listing_log]_vars

\* a finished run over several listing windows
C7_Witness == pc = "done" /\ Len(listing_log) >= 2 /\ Len(iter_log) = NDays

\* C8: the listing windows are consecutive, disjoint, at most PAGE_SIZE days
\* long and inside [start, end]; once Phase 1 is over they cover every day of
\* the range exactly once, in ceil(n_days / PAGE_SIZE) calls.
C8_Windows ==
    /\ \A k \in 1..Len(listing_log) :
          /\ start_date <= listing_log[k].date_start
          /\ listing_log[k].date_start <= listing_log[k].date_end
          /\ listing_log[k].date_end <= stop_date
          /\ (listing_log[k].date_end - listing_log[k].date_start) + 1 <= PAGE_SIZE
    /\ listing_log # <<>> => listing_log[1].date_start = start_date
    /\ \A k \in 1..(Len(listing_log) - 1) :
          listing_log[k + 1].date_start = listing_log[k].date_end + 1
    /\ pc \in {"dates", "done"} =>
          /\ Len(listing_log) = (NDays + (PAGE_SIZE - 1)) \div PAGE_SIZE
          /\ \A d \in Range :
                Cardinality({k \in 1..Len(listing_log) :
                                listing_log[k].date_start <= d
                                /\ d <= listing_log[k].date_end}) = 1

\* Phase 1 over after three windows
C8_Witness == pc = "dates" /\ Len(listing_log) = 3

C9_FsState ==
    \A k \in Iterations :
        iter_log[k].fs \in {"makedirs", "open"} =>
            /\ k = Len(iter_log)
            /\ pc = "raised"
            /\ error \in FsErrors
            /\ iter_log[k].fs = "makedirs"
                  => error = "Exception: Cannot create destination directory"
            /\ \A j \in 1..Len(stdout) :
                  stdout[j].line = "Downloaded" /\ stdout[j].path \in DOMAIN files
            /\ Cardinality(DOMAIN files) = Cardinality(Fetched) - 1

\* C9: a directory creation or file write that fails is not skipped: the error
\* leaves download_date_range in that iteration, nothing is fetched, written or
\* printed after it, and the files of the earlier dates stay as they are.
C9_FsFailure ==
    /\ []C9_FsState
    /\ [][pc' = "raised" => files' = files /\ stdout' = stdout]_vars
    /\ [][pc = "raised" => UNCHANGED <<files, fetch_log, stdout>>]_vars

\* a write failed after an earlier date was written and before the last date
C9_Witness ==
    /\ pc = "raised"
    /\ error \in FsErrors
    /\ DOMAIN files # {}
    /\ i < Len(date_list)

\* C10: a date without an id sends no fetch request and still sleeps the whole
\* interval; every Phase 2 iteration that completes lasts at least the interval;
\* time_waiting is the sum of the sleeps of both phases, and that is the figure
\* of the second summary line.
C10_Waiting ==
    /\ \A k \in Iterations :
          /\ iter_log[k].date \notin DOMAIN ids => iter_log[k].response = "none"
          /\ iter_log[k].response = "none" =>
                iter_log[k].en - iter_log[k].st = secs_btwn_queries
          /\ iter_log[k].fs \in {"none", "ok"} =>
                iter_log[k].en - iter_log[k].st >= secs_btwn_queries
    /\ Len(fetch_log) = Cardinality(Requested)
    /\ time_waiting = Sum(sleep_log)
    /\ pc = "done" =>
          Last(stdout) = [line |-> "Waiting", secs |-> Format2(Sum(sleep_log))]

\* a finished run that slept in Phase 1 and for a date without an id
C10_Witness ==
    /\ pc = "done"
    /\ secs_btwn_queries > 1
    /\ listing_log # <<>>
    /\ \E k \in Iterations : iter_log[k].response = "none"
    /\ Len(sleep_log) = Len(listing_log) + Len(iter_log)

====
